---- MODULE Spec2Model ----
(***************************************************************************)
(* State-machine model of the ticket webhooks (app.py, twilio-app.py) and  *)
(* of the agent client (dialogflow.py).  One action per Flask handler and   *)
(* one per module start-up; the external services (BigQuery, Dialogflow CX, *)
(* Twilio) answer nondeterministically.                                     *)
(***************************************************************************)
EXTENDS Integers, Sequences, FiniteSets, TLC

VARIABLES
    app,          \* which Flask program runs: "app" (app.py) or "twilio-app"
    env,          \* names of the environment variables that are set
    pc,           \* "boot", "serving" or "crashed"
    config,       \* the module globals read from the environment at start-up
    bq_client,    \* the module global bq_client: "client" or None
    store,        \* rows held by BigQuery, in insertion order: [table, row]
    request,      \* the request handled last
    response,     \* the HTTP response to it
    bq_calls,     \* store calls issued while handling it
    agent_calls,  \* agent calls issued while handling it
    sends,        \* Twilio messages.create attempts made while handling it
    constructed,  \* client handles constructed by the last step, in order
    threads       \* the local variables of the requests handled concurrently

vars == <<app, env, pc, config, bq_client, store, request, response,
          bq_calls, agent_calls, sends, constructed, threads>>

(***************************************************************************)
(* Python values.  None prints as the text None in an f-string.            *)
(***************************************************************************)
None == "None"

Falsy(s) == s = None \/ s = ""

Apps == {"app", "twilio-app"}

EnvNames == {"TWILIO_ACCOUNT_SID", "TWILIO_AUTH_TOKEN", "LANGUAGE_CODE",
             "PROJECT_ID", "BIGQUERY_DATASET_ID", "BIGQUERY_TABLE_ID",
             "BIGQUERY_TABLE_ID_WA", "SERVICE_ACCOUNT_PATH", "AGENT_ID",
             "LOCATION"}

EnvValue == [n \in EnvNames |->
               CASE n = "TWILIO_ACCOUNT_SID"   -> "AC123"
                 [] n = "TWILIO_AUTH_TOKEN"    -> "secret"
                 [] n = "LANGUAGE_CODE"        -> "en"
                 [] n = "PROJECT_ID"           -> "proj"
                 [] n = "BIGQUERY_DATASET_ID"  -> "ticketing_dataset"
                 [] n = "BIGQUERY_TABLE_ID"    -> "ticket_table"
                 [] n = "BIGQUERY_TABLE_ID_WA" -> "ticket_table_wa"
                 [] n = "SERVICE_ACCOUNT_PATH" -> "sa.json"
                 [] n = "AGENT_ID"             -> "agent"
                 [] n = "LOCATION"             -> "global"]

\* os.getenv(name) / os.environ.get(name)
Getenv(e, name) == IF name \in e THEN EnvValue[name] ELSE None

NoConfig == [account_sid |-> None, auth_token |-> None, language_code |-> None,
             BIGQUERY_PROJECT_ID |-> None, BIGQUERY_DATASET_ID |-> None,
             BIGQUERY_TABLE_ID |-> None, BIGQUERY_TABLE_ID_WA |-> None]

\* app.py lines 23-37: BIGQUERY_TABLE_ID is assigned twice, last from
\* BIGQUERY_TABLE_ID_WA.
LoadConfig(e) ==
    [account_sid         |-> Getenv(e, "TWILIO_ACCOUNT_SID"),
     auth_token          |-> Getenv(e, "TWILIO_AUTH_TOKEN"),
     language_code       |-> Getenv(e, "LANGUAGE_CODE"),
     BIGQUERY_PROJECT_ID |-> Getenv(e, "PROJECT_ID"),
     BIGQUERY_DATASET_ID |-> Getenv(e, "BIGQUERY_DATASET_ID"),
     BIGQUERY_TABLE_ID   |-> Getenv(e, "BIGQUERY_TABLE_ID_WA"),
     BIGQUERY_TABLE_ID_WA |-> Getenv(e, "BIGQUERY_TABLE_ID_WA")]

\* twilio-app.py lines 28-37: there is no BIGQUERY_TABLE_ID_WA global.
TwilioAppLoadConfig(e) ==
    [account_sid         |-> Getenv(e, "TWILIO_ACCOUNT_SID"),
     auth_token          |-> Getenv(e, "TWILIO_AUTH_TOKEN"),
     language_code       |-> Getenv(e, "LANGUAGE_CODE"),
     BIGQUERY_PROJECT_ID |-> Getenv(e, "PROJECT_ID"),
     BIGQUERY_DATASET_ID |-> Getenv(e, "BIGQUERY_DATASET_ID"),
     BIGQUERY_TABLE_ID   |-> Getenv(e, "BIGQUERY_TABLE_ID_WA"),
     BIGQUERY_TABLE_ID_WA |-> None]

\* os.environ[key] = value raises TypeError unless value is a str.
EnvironAssignRaises(value) == value = None

\* dialogflow.py line 16, run by "from dialogflow import DialogFlowReply".
DialogflowImportRaises(e) ==
    EnvironAssignRaises(Getenv(e, "SERVICE_ACCOUNT_PATH"))

\* app.py line 62.
SetCloudProjectRaises(cfg) == EnvironAssignRaises(cfg.BIGQUERY_PROJECT_ID)

NoRequest  == [endpoint |-> "none"]
NoResponse == [status |-> 0, kind |-> "none"]

(***************************************************************************)
(* Start-up of app.py: the import of dialogflow, the globals, line 62 and   *)
(* the BigQuery client.  bigquery.Client() succeeds or raises.              *)
(***************************************************************************)
Startup ==
    /\ app = "app"
    /\ pc = "boot"
    /\ \E bq_init_ok \in BOOLEAN :
         IF DialogflowImportRaises(env)
         THEN /\ pc' = "crashed"
              /\ UNCHANGED <<config, bq_client>>
         ELSE IF SetCloudProjectRaises(LoadConfig(env))
         THEN /\ pc' = "crashed"
              /\ config' = LoadConfig(env)
              /\ UNCHANGED bq_client
         ELSE /\ pc' = "serving"
              /\ config' = LoadConfig(env)
              /\ bq_client' = IF bq_init_ok THEN "client" ELSE None
    /\ constructed' = IF DialogflowImportRaises(env)
                          \/ SetCloudProjectRaises(LoadConfig(env))
                      THEN <<>> ELSE <<"bigquery.Client">>
    /\ UNCHANGED <<app, env, store, request, response, bq_calls, agent_calls,
                   sends, threads>>

\* Start-up of twilio-app.py: no assignment to os.environ of its own.
TwilioAppStartup ==
    /\ app = "twilio-app"
    /\ pc = "boot"
    /\ \E bq_init_ok \in BOOLEAN :
         IF DialogflowImportRaises(env)
         THEN /\ pc' = "crashed"
              /\ UNCHANGED <<config, bq_client>>
         ELSE /\ pc' = "serving"
              /\ config' = TwilioAppLoadConfig(env)
              /\ bq_client' = IF bq_init_ok THEN "client" ELSE None
    /\ constructed' = IF DialogflowImportRaises(env)
                      THEN <<>> ELSE <<"bigquery.Client">>
    /\ UNCHANGED <<app, env, store, request, response, bq_calls, agent_calls,
                   sends, threads>>

(***************************************************************************)
(* JSON values of a parameter bag.  A Python dict is a function whose       *)
(* domain is the set of keys present.                                       *)
(***************************************************************************)
PyNone == [t |-> "none", v |-> ""]

PyStr(s) == [t |-> "str", v |-> s]

\* The object {"name": s}
NamedObject(s) == [t |-> "dict", v |-> s]

\* The object {}
EmptyObject == [t |-> "emptydict", v |-> ""]

EmptyDict == <<>>

\* Python truth of a JSON value: None, "" and {} are false.
Truthy(x) == \/ x.t = "str" /\ x.v # ""
             \/ x.t = "dict"

\* d.get(k, default)
DictGet(d, k, default) == IF k \in DOMAIN d THEN d[k] ELSE default

\* d.get(k)
DictGetNone(d, k) == DictGet(d, k, PyNone)

\* isinstance(x, dict); x.get('name', 'N/A') on such an x
IsDict(x) == x.t \in {"dict", "emptydict"}

IsStr(x) == x.t = "str"

InnerName(x) == IF x.t = "dict" THEN PyStr(x.v) ELSE PyStr("N/A")

\* request_data.get('sessionInfo', {}).get('parameters', {})
Parameters(request_data) ==
    DictGet(DictGet(request_data, "sessionInfo", EmptyDict), "parameters",
            EmptyDict)

\* str(uuid.uuid4()) without the [:8]
TicketIdFull(uuid) == uuid

\* str(uuid.uuid4())[:8]
TicketId(uuid) == SubSeq(uuid, 1, 8)

Lit(s) == PyStr(s)

ErrorResponse(msg) == [status |-> 500, kind |-> "error", error |-> msg]

\* The handler without its outer try: Flask answers the exception itself
\* with its "Internal Server Error" page.
UnhandledError == [status |-> 500, kind |-> "html"]

\* The except clause of webhook / create_ticket (app.py 155-165, 272-282)
CreateApology ==
    [status |-> 500, kind |-> "fulfillment",
     text |-> <<Lit("An error occurred while processing your request")>>]

\* The except clause of check_status / check (app.py 355-365, 444-454)
CheckApology ==
    [status |-> 500, kind |-> "fulfillment",
     text |-> <<Lit("An error occurred while checking your ticket status.")>>]

TableName(cfg, table) ==
    cfg.BIGQUERY_PROJECT_ID \o "." \o cfg.BIGQUERY_DATASET_ID \o "." \o table

\* What a handler returns: its response, the rows it inserted, the store
\* calls it issued.
Outcome(resp, rows, calls) == [response |-> resp, rows |-> rows, calls |-> calls]

\* bq_client.insert_rows_json(table_id, [row_to_insert]) and how it ended:
\* "ok" (no errors), "errors" (row-level errors) or "raise".
InsertCall(table_id, insert) ==
    [op |-> "insert", table |-> table_id, outcome |-> insert]

\* InsertBlock without the "if bq_client" test.
InsertBlockUnguarded(client, table_id, row, insert, success) ==
    CASE insert = "ok" ->
           Outcome(success, <<[table |-> table_id, row |-> row]>>,
                   <<InsertCall(table_id, insert)>>)
      [] insert = "errors" ->
           Outcome(ErrorResponse("Database insertion failed"), <<>>,
                   <<InsertCall(table_id, insert)>>)
      [] OTHER ->
           Outcome(ErrorResponse("Database error"), <<>>,
                   <<InsertCall(table_id, insert)>>)

\* InsertBlock without the test of the errors insert_rows_json returns.
InsertBlockIgnoringErrors(client, table_id, row, insert, success) ==
    IF client # None
    THEN CASE insert \in {"ok", "errors"} ->
                Outcome(success, <<[table |-> table_id, row |-> row]>>,
                        <<InsertCall(table_id, insert)>>)
           [] OTHER ->
                Outcome(ErrorResponse("Database error"), <<>>,
                        <<InsertCall(table_id, insert)>>)
    ELSE Outcome(ErrorResponse("Server configuration error"), <<>>, <<>>)

\* The "BigQuery insertion" block of the create handlers (app.py 109-125,
\* 224-240; twilio-app.py 239-255): insert is "ok", "errors" or "raise".
InsertBlock(client, table_id, row, insert, success) ==
    IF client # None
    THEN CASE insert = "ok" ->
                Outcome(success, <<[table |-> table_id, row |-> row]>>,
                        <<InsertCall(table_id, insert)>>)
           [] insert = "errors" ->
                Outcome(ErrorResponse("Database insertion failed"), <<>>,
                        <<InsertCall(table_id, insert)>>)
           [] OTHER ->
                Outcome(ErrorResponse("Database error"), <<>>,
                        <<InsertCall(table_id, insert)>>)
    ELSE Outcome(ErrorResponse("Server configuration error"), <<>>, <<>>)

(***************************************************************************)
(* POST /webhook of app.py                                                  *)
(***************************************************************************)
\* parameters.get('name', {}).get('name', 'N/A') raises AttributeError when
\* the value under 'name' is not a dict.
WebhookNameRaises(parameters) ==
    ~IsDict(DictGet(parameters, "name", EmptyObject))

WebhookName(parameters) == InnerName(DictGet(parameters, "name", EmptyObject))

\* The row with its status read from the parameter bag.
WebhookRowStatusFromInput(ticket_id, created_at, parameters) ==
    [ticket_id           |-> ticket_id,
     created_at          |-> created_at,
     issue               |-> DictGet(parameters, "issue", PyStr("N/A")),
     status              |-> DictGet(parameters, "status", PyStr("Open")).v,
     name                |-> WebhookName(parameters),
     email_address       |-> DictGet(parameters, "email", PyStr("N/A")),
     ticket_history_file |-> ""]

\* row_to_insert of webhook (app.py 98-107)
WebhookRow(ticket_id, created_at, parameters) ==
    [ticket_id           |-> ticket_id,
     created_at          |-> created_at,
     issue               |-> DictGet(parameters, "issue", PyStr("N/A")),
     status              |-> "Open",
     name                |-> WebhookName(parameters),
     email_address       |-> DictGet(parameters, "email", PyStr("N/A")),
     ticket_history_file |-> ""]

WebhookSuccess(row) ==
    [status |-> 200, kind |-> "fulfillment",
     text |-> <<Lit("Ticket Summary:"),
                Lit("Ticket ID: "), PyStr(row.ticket_id),
                Lit("Name: "), row.name,
                Lit("Email address: "), row.email_address,
                Lit("Issue: "), row.issue,
                Lit("Your ticket has been created. A confirmation email has been sent.")>>,
     parameters |-> [ticket_id     |-> row.ticket_id,
                     status        |-> "Open",
                     email_address |-> row.email_address]]

WebhookHandle(client, cfg, req, uuid, now, insert) ==
    IF ~req.json \/ WebhookNameRaises(Parameters(req.data))
    THEN Outcome(CreateApology, <<>>, <<>>)
    ELSE LET row == WebhookRow(TicketId(uuid), now, Parameters(req.data))
         IN  InsertBlock(client, TableName(cfg, cfg.BIGQUERY_TABLE_ID), row,
                         insert, WebhookSuccess(row))

(***************************************************************************)
(* POST /create of app.py                                                   *)
(***************************************************************************)
\* email = parameters.get('Email'); if not email: parameters.get('email','N/A')
CreateEmail(parameters) ==
    IF Truthy(DictGetNone(parameters, "Email"))
    THEN DictGetNone(parameters, "Email")
    ELSE DictGet(parameters, "email", PyStr("N/A"))

CreateIssue(parameters) ==
    IF Truthy(DictGetNone(parameters, "Issue"))
    THEN DictGetNone(parameters, "Issue")
    ELSE DictGet(parameters, "issue", PyStr("N/A"))

\* app.py 190-204
CreateName(parameters) ==
    LET name_parameter == DictGetNone(parameters, "Name")
        name_parameter_lowercase == DictGetNone(parameters, "name")
    IN  IF IsDict(name_parameter) THEN InnerName(name_parameter)
        ELSE IF IsStr(name_parameter) THEN name_parameter
        ELSE IF IsDict(name_parameter_lowercase)
             THEN InnerName(name_parameter_lowercase)
        ELSE IF IsStr(name_parameter_lowercase) THEN name_parameter_lowercase
        ELSE PyStr("N/A")

\* phone_number = parameters.get('phone', 'N/A');
\* if not phone_number: parameters.get('Phone', 'N/A')
CreatePhone(parameters) ==
    IF Truthy(DictGet(parameters, "phone", PyStr("N/A")))
    THEN DictGet(parameters, "phone", PyStr("N/A"))
    ELSE DictGet(parameters, "Phone", PyStr("N/A"))

CreateRow(ticket_id, created_at, parameters) ==
    [ticket_id           |-> ticket_id,
     created_at          |-> created_at,
     issue               |-> CreateIssue(parameters),
     status              |-> "Open",
     name                |-> CreateName(parameters),
     phone_number        |-> CreatePhone(parameters),
     email_address       |-> CreateEmail(parameters),
     ticket_history_file |-> ""]

\* The response with the name echoed under email_address.
CreateSuccessEchoName(row) ==
    [status |-> 200, kind |-> "fulfillment",
     text |-> <<Lit("Ticket Summary:"),
                Lit("Ticket ID: "), PyStr(row.ticket_id),
                Lit("Name: "), row.name,
                Lit("Phone Number: "), row.phone_number,
                Lit("Email address: "), row.email_address,
                Lit("Issue: "), row.issue,
                Lit("Your ticket has been created. A confirmation email has been sent.")>>,
     parameters |-> [ticket_id     |-> row.ticket_id,
                     status        |-> "Open",
                     email_address |-> row.name,
                     phone_number  |-> row.phone_number]]

\* The response of create_ticket (app.py 242-270)
CreateSuccess(row) ==
    [status |-> 200, kind |-> "fulfillment",
     text |-> <<Lit("Ticket Summary:"),
                Lit("Ticket ID: "), PyStr(row.ticket_id),
                Lit("Name: "), row.name,
                Lit("Phone Number: "), row.phone_number,
                Lit("Email address: "), row.email_address,
                Lit("Issue: "), row.issue,
                Lit("Your ticket has been created. A confirmation email has been sent.")>>,
     parameters |-> [ticket_id     |-> row.ticket_id,
                     status        |-> "Open",
                     email_address |-> row.email_address,
                     phone_number  |-> row.phone_number]]

CreateTicketHandle(client, cfg, req, uuid, now, insert) ==
    IF ~req.json
    THEN Outcome(CreateApology, <<>>, <<>>)
    ELSE LET row == CreateRow(TicketId(uuid), now, Parameters(req.data))
         IN  InsertBlock(client, TableName(cfg, cfg.BIGQUERY_TABLE_ID_WA), row,
                         insert, CreateSuccess(row))

(***************************************************************************)
(* POST /create of twilio-app.py                                            *)
(***************************************************************************)
TwilioAppCreateRow(ticket_id, created_at, parameters) ==
    [ticket_id           |-> ticket_id,
     created_at          |-> created_at,
     issue               |-> DictGet(parameters, "issue", PyStr("N/A")),
     status              |-> "Open",
     name                |-> WebhookName(parameters),
     phone_number        |-> DictGet(parameters, "phone", PyStr("N/A")),
     email_address       |-> DictGet(parameters, "email", PyStr("N/A")),
     ticket_history_file |-> ""]

TwilioAppCreateSuccess(row) ==
    [status |-> 200, kind |-> "fulfillment",
     text |-> <<Lit("Ticket Summary:"),
                Lit("Ticket ID: "), PyStr(row.ticket_id),
                Lit("Name: "), row.name,
                Lit("Email address: "), row.email_address,
                Lit("Issue: "), row.issue,
                Lit("Phone Number: "), row.phone_number,
                Lit("Your ticket has been created. A confirmation email has been sent.")>>,
     parameters |-> [ticket_id     |-> row.ticket_id,
                     status        |-> "Open",
                     email_address |-> row.email_address,
                     phone_number  |-> row.phone_number]]

TwilioAppCreateHandle(client, cfg, req, uuid, now, insert) ==
    IF ~req.json \/ WebhookNameRaises(Parameters(req.data))
    THEN Outcome(CreateApology, <<>>, <<>>)
    ELSE LET row == TwilioAppCreateRow(TicketId(uuid), now, Parameters(req.data))
         IN  InsertBlock(client, TableName(cfg, cfg.BIGQUERY_TABLE_ID), row,
                         insert, TwilioAppCreateSuccess(row))

(***************************************************************************)
(* Status checks: POST /check_status and /check of app.py, /check of        *)
(* twilio-app.py.  The query selects the rows of one table whose ticket_id   *)
(* equals the parameter; without ORDER BY any matching row may come first.   *)
(***************************************************************************)
\* The query without its WHERE clause: every row of the table is selected.
MatchesAnyId(st, table_id, ticket_id) ==
    {i \in 1..Len(st) : st[i].table = table_id}

\* WHERE ticket_id = @ticket_id (app.py 305-316)
Matches(st, table_id, ticket_id) ==
    {i \in 1..Len(st) : /\ st[i].table = table_id
                        /\ IsStr(ticket_id)
                        /\ st[i].row.ticket_id = ticket_id.v}

\* bq_client.query(...) with @ticket_id and how it ended: "ok" with the
\* number of rows of its result, or "raise".
QueryCall(st, table_id, ticket_id, query) ==
    [op |-> "query", table |-> table_id, ticket_id |-> ticket_id,
     outcome |-> query,
     matched |-> IF query = "ok" THEN Cardinality(Matches(st, table_id, ticket_id))
                 ELSE 0]

\* The answer with HTTP 404 in place of 200.
NotFoundResponse404(ticket_id) ==
    [status |-> 404, kind |-> "fulfillment",
     text |-> <<Lit("No ticket found with the provided ID.")>>,
     parameters |-> [ticketid |-> ticket_id, status |-> "Not Found"]]

\* app.py 301-302 and 336-353: no row in the result
NotFoundResponse(ticket_id) ==
    [status |-> 200, kind |-> "fulfillment",
     text |-> <<Lit("No ticket found with the provided ID.")>>,
     parameters |-> [ticketid |-> ticket_id, status |-> "Not Found"]]

\* app.py 320-330
CheckStatusFound(ticket_id, ticket) ==
    [status |-> 200, kind |-> "fulfillment",
     text |-> <<Lit("Ticket Status:"),
                Lit("Ticket ID: "), ticket_id,
                Lit("Created At: "), PyStr(ticket.created_at),
                Lit("Issue: "), ticket.issue,
                Lit("Status: "), PyStr(ticket.status)>>,
     parameters |-> [ticketid |-> ticket_id, status |-> ticket.status]]

\* app.py 410-419
CheckFound(ticket_id, ticket) ==
    [status |-> 200, kind |-> "fulfillment",
     text |-> <<Lit("Ticket ID: "), ticket_id,
                Lit("Created At: "), PyStr(ticket.created_at),
                Lit("Issue: "), ticket.issue,
                Lit("Status: "), PyStr(ticket.status)>>,
     parameters |-> [ticketid |-> ticket_id, status |-> ticket.status]]

\* app.py 293
CheckStatusTicketId(parameters) == DictGet(parameters, "ticket_id", PyStr("N/A"))

\* check reading the key ticketid only
CheckTicketIdOneKey(parameters) == DictGet(parameters, "ticketid", PyStr("N/A"))

\* app.py 378-382
CheckTicketId(parameters) ==
    IF Truthy(DictGetNone(parameters, "ticketid"))
    THEN DictGetNone(parameters, "ticketid")
    ELSE IF Truthy(DictGetNone(parameters, "ticket_id"))
    THEN DictGetNone(parameters, "ticket_id")
    ELSE DictGet(parameters, "TicketID", PyStr("N/A"))

\* twilio-app.py 308
TwilioAppCheckTicketId(parameters) == DictGet(parameters, "ticketid", PyStr("N/A"))

\* query is "ok" or "raise"; pick is the index of the row that comes first
\* in the result, 0 when the result is empty.
CheckStatusHandle(client, cfg, st, req, query, pick) ==
    IF ~req.json THEN Outcome(CheckApology, <<>>, <<>>)
    ELSE LET ticket_id == CheckStatusTicketId(Parameters(req.data))
             table_id  == TableName(cfg, cfg.BIGQUERY_TABLE_ID)
             call      == <<QueryCall(st, table_id, ticket_id, query)>>
         IN  IF client = None
             THEN Outcome(ErrorResponse("Server configuration error"), <<>>, <<>>)
             ELSE IF query = "raise" \/ ~IsStr(ticket_id)
             THEN Outcome(ErrorResponse("Database error"), <<>>, call)
             ELSE IF pick = 0
             THEN Outcome(NotFoundResponse(ticket_id), <<>>, call)
             ELSE Outcome(CheckStatusFound(ticket_id, st[pick].row), <<>>, call)

CheckHandle(client, cfg, st, req, query, pick) ==
    IF ~req.json THEN Outcome(CheckApology, <<>>, <<>>)
    ELSE LET ticket_id == CheckTicketId(Parameters(req.data))
             table_id  == TableName(cfg, cfg.BIGQUERY_TABLE_ID_WA)
             call      == <<QueryCall(st, table_id, ticket_id, query)>>
         IN  IF client = None
             THEN Outcome(ErrorResponse("Server configuration error"), <<>>, <<>>)
             ELSE IF query = "raise" \/ ~IsStr(ticket_id)
             THEN Outcome(ErrorResponse("Database error"), <<>>, call)
             ELSE IF pick = 0
             THEN Outcome(NotFoundResponse(ticket_id), <<>>, call)
             ELSE Outcome(CheckFound(ticket_id, st[pick].row), <<>>, call)

TwilioAppCheckHandle(client, cfg, st, req, query, pick) ==
    IF ~req.json THEN Outcome(CheckApology, <<>>, <<>>)
    ELSE LET ticket_id == TwilioAppCheckTicketId(Parameters(req.data))
             table_id  == TableName(cfg, cfg.BIGQUERY_TABLE_ID)
             call      == <<QueryCall(st, table_id, ticket_id, query)>>
         IN  IF client = None
             THEN Outcome(ErrorResponse("Server configuration error"), <<>>, <<>>)
             ELSE IF query = "raise" \/ ~IsStr(ticket_id)
             THEN Outcome(ErrorResponse("Database error"), <<>>, call)
             ELSE IF pick = 0
             THEN Outcome(NotFoundResponse(ticket_id), <<>>, call)
             ELSE Outcome(CheckStatusFound(ticket_id, st[pick].row), <<>>, call)

\* The rows a query may return first
Picks(st, table_id, ticket_id) ==
    IF Matches(st, table_id, ticket_id) = {} THEN {0}
    ELSE Matches(st, table_id, ticket_id)

(***************************************************************************)
(* Inputs                                                                   *)
(***************************************************************************)
MaxTickets == 2

\* str(uuid.uuid4()): the first two share their first eight characters
Uuids == {"1b9d6bcd-bbfd-4b2d-9b5d-ab8dfbbd4bed",
          "1b9d6bcd-0c3a-4f6e-8a2b-5d7e9f1a3c4b",
          "7c9e6679-7425-40de-944b-e07fc1f90ae7"}

\* datetime.utcnow().isoformat(): the clock reads a later second at each
\* insert, n being the number of rows inserted before.
UtcNow(n) == "2025-05-01T10:00:0" \o ToString(n)

InsertOutcomes == {"ok", "errors", "raise"}

QueryOutcomes == {"ok", "raise"}

\* A body that is JSON, {"sessionInfo": {"parameters": bag}}, and one that
\* is not (request.get_json() returns None or raises).
JsonRequest(endpoint, bag) ==
    [endpoint |-> endpoint, json |-> TRUE,
     data |-> ("sessionInfo" :> ("parameters" :> bag))]

NotJsonRequest(endpoint) ==
    [endpoint |-> endpoint, json |-> FALSE, data |-> EmptyDict]

BagExample == ("email" :> PyStr("a@b.com")) @@ ("issue" :> PyStr("login fails"))

BagFull == ("email" :> PyStr("jane@x.org")) @@ ("issue" :> PyStr("no sound"))
           @@ ("name" :> NamedObject("Jane")) @@ ("phone" :> PyStr("555"))

CreateBags == {BagExample, BagFull}

\* name as a plain string, which only POST /create of app.py accepts
BagStringName == ("email" :> PyStr("a@b.com")) @@ ("name" :> PyStr("Jane"))

\* The bags sent to the handlers that read name as an object
NamedBags == CreateBags \cup {BagStringName}

\* The ids asked for: those the creates can generate, and one that differs
\* from a generated id in the case of its letters only.
AskedIds == {TicketId(u) : u \in Uuids} \cup {"1B9D6BCD"}

CheckBags ==
    {EmptyDict} \cup
    {(k :> PyStr(id)) : k \in {"ticket_id", "ticketid", "TicketID"},
                        id \in AskedIds}

Requests(endpoint, bags) ==
    {NotJsonRequest(endpoint)} \cup {JsonRequest(endpoint, b) : b \in bags}

(***************************************************************************)
(* Actions: one per handler.                                                *)
(***************************************************************************)
\* The handler with an insert that replaces the content of the table.
ServeOverwriting(req, out) ==
    /\ request' = req
    /\ response' = out.response
    /\ store' = IF out.rows = <<>> THEN store ELSE out.rows
    /\ bq_calls' = out.calls
    /\ agent_calls' = <<>>
    /\ sends' = <<>>
    /\ constructed' = <<>>
    /\ UNCHANGED <<app, env, pc, config, bq_client, threads>>

\* One request served by a ticket handler: insert_rows_json appends the
\* rows to the table, a query leaves it as it is.
Serve(req, out) ==
    /\ request' = req
    /\ response' = out.response
    /\ store' = store \o out.rows
    /\ bq_calls' = out.calls
    /\ agent_calls' = <<>>
    /\ sends' = <<>>
    /\ constructed' = <<>>
    /\ UNCHANGED <<app, env, pc, config, bq_client, threads>>

WebhookOn(bags) ==
    /\ app = "app"
    /\ pc = "serving"
    /\ \E req \in Requests("/webhook", bags), uuid \in Uuids,
          insert \in InsertOutcomes :
         Serve(req, WebhookHandle(bq_client, config, req, uuid,
                             UtcNow(Len(store)), insert))

CreateTicketOn(bags) ==
    /\ app = "app"
    /\ pc = "serving"
    /\ \E req \in Requests("/create", bags), uuid \in Uuids,
          insert \in InsertOutcomes :
         Serve(req, CreateTicketHandle(bq_client, config, req, uuid,
                             UtcNow(Len(store)), insert))

TwilioAppCreateOn(bags) ==
    /\ app = "twilio-app"
    /\ pc = "serving"
    /\ \E req \in Requests("/create", bags), uuid \in Uuids,
          insert \in InsertOutcomes :
         Serve(req, TwilioAppCreateHandle(bq_client, config, req, uuid,
                             UtcNow(Len(store)), insert))

CheckStatusOn(bags) ==
    /\ app = "app"
    /\ pc = "serving"
    /\ \E req \in Requests("/check_status", bags), query \in QueryOutcomes :
         \E pick \in Picks(store, TableName(config, config.BIGQUERY_TABLE_ID),
                           CheckStatusTicketId(Parameters(req.data))) :
           Serve(req, CheckStatusHandle(bq_client, config, store, req, query, pick))

CheckOn(bags) ==
    /\ app = "app"
    /\ pc = "serving"
    /\ \E req \in Requests("/check", bags), query \in QueryOutcomes :
         \E pick \in Picks(store, TableName(config, config.BIGQUERY_TABLE_ID_WA),
                           CheckTicketId(Parameters(req.data))) :
           Serve(req, CheckHandle(bq_client, config, store, req, query, pick))

TwilioAppCheckOn(bags) ==
    /\ app = "twilio-app"
    /\ pc = "serving"
    /\ \E req \in Requests("/check", bags), query \in QueryOutcomes :
         \E pick \in Picks(store, TableName(config, config.BIGQUERY_TABLE_ID),
                           TwilioAppCheckTicketId(Parameters(req.data))) :
           Serve(req, TwilioAppCheckHandle(bq_client, config, store, req, query, pick))

Webhook == Len(store) < MaxTickets /\ WebhookOn(NamedBags)

CreateTicket == Len(store) < MaxTickets /\ CreateTicketOn(CreateBags)

TwilioAppCreate == Len(store) < MaxTickets /\ TwilioAppCreateOn(NamedBags)

CheckStatus == CheckStatusOn(CheckBags)

Check == CheckOn(CheckBags)

TwilioAppCheck == TwilioAppCheckOn(CheckBags)

(***************************************************************************)
(* The agent client, dialogflow.py                                          *)
(***************************************************************************)
\* DialogFlowReply.__init__ (dialogflow.py 45-57) raises ValueError when one
\* of the three identifiers is missing.
AgentIdsMissing(e) ==
    \/ Falsy(Getenv(e, "PROJECT_ID"))
    \/ Falsy(Getenv(e, "AGENT_ID"))
    \/ Falsy(Getenv(e, "LOCATION"))

\* The session path with one session for every sender of the channel.
SessionPathOfChannel(e, session_id) ==
    "projects/" \o Getenv(e, "PROJECT_ID") \o "/locations/" \o Getenv(e, "LOCATION")
        \o "/agents/" \o Getenv(e, "AGENT_ID") \o "/sessions/whatsapp"

\* SessionsClient.session_path (dialogflow.py 90-95)
SessionPath(e, session_id) ==
    "projects/" \o Getenv(e, "PROJECT_ID") \o "/locations/" \o Getenv(e, "LOCATION")
        \o "/agents/" \o Getenv(e, "AGENT_ID") \o "/sessions/" \o session_id

\* A ResponseMessage: df_message.text.text is its list of strings, empty
\* when the message carries no text.
Frag(texts) == [text |-> [text |-> texts]]

\* send_request without its try/except: a raise propagates to the caller.
SendRequestPropagating(detect_raises, response_messages) ==
    IF detect_raises THEN [raised |-> TRUE, value |-> <<>>]
    ELSE [raised |-> FALSE, value |-> response_messages]

\* DialogFlowReply.send_request (dialogflow.py 103-138): an exception of
\* detect_intent is logged and [] is returned.
SendRequest(detect_raises, response_messages) ==
    IF detect_raises THEN [raised |-> FALSE, value |-> <<>>]
    ELSE [raised |-> FALSE, value |-> response_messages]

(***************************************************************************)
(* POST /twilio-dialogflowcx (app.py 456-584, twilio-app.py 75-203)         *)
(***************************************************************************)
RECURSIVE StripLeft(_)
StripLeft(s) ==
    IF Len(s) > 0 /\ SubSeq(s, 1, 1) = " "
    THEN StripLeft(SubSeq(s, 2, Len(s))) ELSE s

RECURSIVE StripRight(_)
StripRight(s) ==
    IF Len(s) > 0 /\ SubSeq(s, Len(s), Len(s)) = " "
    THEN StripRight(SubSeq(s, 1, Len(s) - 1)) ELSE s

\* str.strip()
Strip(s) == StripRight(StripLeft(s))

RECURSIVE Join(_, _)
\* sep.join(parts)
Join(parts, sep) ==
    IF parts = <<>> THEN ""
    ELSE IF Len(parts) = 1 THEN parts[1]
    ELSE parts[1] \o sep \o Join(Tail(parts), sep)

\* app.py 471-474, with the test of To left out
MissingFieldsNoTo(form) ==
    (IF Falsy(form.Body) THEN <<"Body">> ELSE <<>>)
        \o (IF Falsy(form.From) THEN <<"From">> ELSE <<>>)

\* app.py 471-474
MissingFields(form) ==
    (IF Falsy(form.Body) THEN <<"Body">> ELSE <<>>)
        \o (IF Falsy(form.From) THEN <<"From">> ELSE <<>>)
        \o (IF Falsy(form.To) THEN <<"To">> ELSE <<>>)

TextResponse(body, status) == [status |-> status, kind |-> "text", body |-> body]

ErrorReply == "Sorry, I encountered an error. Please try again later."

NoResponseReply == "I'm not sure how to respond to that. Can you try rephrasing?"

\* The message with the two addresses exchanged.
MessageSwapped(to, from_, body, ok) ==
    [to |-> from_, from_ |-> to, body |-> body, ok |-> ok]

\* twilio_client.messages.create(to=, from_=, body=): ok is FALSE when it raises
Message(to, from_, body, ok) == [to |-> to, from_ |-> from_, body |-> body, ok |-> ok]

\* app.py 550-556: the message has text and its first string is not blank
Sendable(df_message) ==
    /\ df_message.text.text # <<>>
    /\ Strip(df_message.text.text[1]) # ""

\* The loop without the test of line 554: blank text is sent too.
RECURSIVE RelayLoopNoSkip(_, _, _, _, _)
RelayLoopNoSkip(replies, k, delivery, user_number, twilio_number) ==
    IF replies = <<>> THEN <<>>
    ELSE IF Head(replies).text.text # <<>>
    THEN <<Message(user_number, twilio_number, Head(replies).text.text[1],
                   delivery[k])>>
             \o RelayLoopNoSkip(Tail(replies), k + 1, delivery, user_number,
                                twilio_number)
    ELSE RelayLoopNoSkip(Tail(replies), k, delivery, user_number, twilio_number)

\* The loop with a send failure ending it: no attempt after a failed one.
RECURSIVE RelayLoopAbortOnFailure(_, _, _, _, _)
RelayLoopAbortOnFailure(replies, k, delivery, user_number, twilio_number) ==
    IF replies = <<>> THEN <<>>
    ELSE IF Sendable(Head(replies))
    THEN <<Message(user_number, twilio_number, Head(replies).text.text[1],
                   delivery[k])>>
             \o (IF delivery[k]
                 THEN RelayLoopAbortOnFailure(Tail(replies), k + 1, delivery,
                                              user_number, twilio_number)
                 ELSE <<>>)
    ELSE RelayLoopAbortOnFailure(Tail(replies), k, delivery, user_number,
                                 twilio_number)

\* app.py 548-573: one messages.create per sendable fragment, carrying
\* text.text[0]; delivery[k] tells whether the k-th attempt succeeds.
RECURSIVE RelayLoop(_, _, _, _, _)
RelayLoop(replies, k, delivery, user_number, twilio_number) ==
    IF replies = <<>> THEN <<>>
    ELSE IF Sendable(Head(replies))
    THEN <<Message(user_number, twilio_number, Head(replies).text.text[1],
                   delivery[k])>>
             \o RelayLoop(Tail(replies), k + 1, delivery, user_number,
                          twilio_number)
    ELSE RelayLoop(Tail(replies), k, delivery, user_number, twilio_number)

\* sent_messages_count
SentCount(attempts) == Cardinality({i \in 1..Len(attempts) : attempts[i].ok})

RelayOutcome(resp, calls, attempts) ==
    [response |-> resp, agent_calls |-> calls, sends |-> attempts]

\* The external answers to one relay request:
\*   client_ok        whether Client(account_sid, auth_token) returns
\*   session_ok       whether SessionsClient() and session_path() return
\*   detect_raises    whether detect_intent raises
\*   response_messages  the reply list of detect_intent
\*   delivery         delivery[k]: whether the k-th messages.create returns
RelayHandle(cfg, e, req, client_ok, session_ok, detect_raises, response_messages, delivery) ==
    LET received_msg  == req.form.Body
        user_number   == req.form.From
        twilio_number == req.form.To
        init_call == [op |-> "DialogFlowReply", session_id |-> user_number,
                      message |-> "", language_code |-> "",
                      raised |-> AgentIdsMissing(e) \/ ~session_ok,
                      session |-> "", replies |-> <<>>]
        detect_call == [op |-> "detect_intent",
                        session_id |-> user_number,
                        message |-> received_msg,
                        language_code |-> cfg.language_code,
                        raised |-> detect_raises,
                        session |-> SessionPath(e, user_number),
                        replies |-> IF detect_raises THEN <<>>
                                    ELSE response_messages]
        result == SendRequest(detect_raises, response_messages)
        dialogflow_responses == result.value
    IN  IF req.form_error
        THEN RelayOutcome(TextResponse("Error processing request data.", 400),
                          <<>>, <<>>)
        ELSE IF MissingFields(req.form) # <<>>
        THEN RelayOutcome(
                 TextResponse("Missing required form fields: "
                                  \o Join(MissingFields(req.form), ", "), 400),
                 <<>>, <<>>)
        ELSE IF Falsy(cfg.account_sid) \/ Falsy(cfg.auth_token)
        THEN RelayOutcome(TextResponse("Twilio service not configured.", 500),
                          <<>>, <<>>)
        ELSE IF ~client_ok
        THEN RelayOutcome(TextResponse("Failed to initialize Twilio service.", 500),
                          <<>>, <<>>)
        ELSE IF init_call.raised
        THEN RelayOutcome(TextResponse("Error communicating with Dialogflow.", 500),
                          <<init_call>>,
                          <<Message(user_number, twilio_number, ErrorReply,
                                    delivery[1])>>)
        ELSE IF result.raised
        THEN RelayOutcome(TextResponse("Error communicating with Dialogflow.", 500),
                          <<init_call, detect_call>>,
                          <<Message(user_number, twilio_number, ErrorReply,
                                    delivery[1])>>)
        ELSE IF dialogflow_responses = <<>>
        THEN RelayOutcome(TextResponse("No message content from Dialogflow.", 200),
                          <<init_call, detect_call>>,
                          <<Message(user_number, twilio_number, NoResponseReply,
                                    delivery[1])>>)
        ELSE LET attempts == RelayLoop(dialogflow_responses, 1, delivery,
                                       user_number, twilio_number)
             IN  IF SentCount(attempts) > 0
                 THEN RelayOutcome(TextResponse("", 200),
                                   <<init_call, detect_call>>, attempts)
                 ELSE RelayOutcome(TextResponse("No messages were sent.", 200),
                                   <<init_call, detect_call>>, attempts)

(***************************************************************************)
(* Inputs of the relay webhook                                              *)
(***************************************************************************)
MaxReplies == 2

\* request.form.get(field): None when the field is absent
FormValues(value) == {None, "", value}

RelayForms ==
    [Body : FormValues("hi"),
     From : FormValues("whatsapp:+111") \cup {"whatsapp:+222"},
     To   : FormValues("whatsapp:+999")]

\* form_error: reading request.form raises
RelayRequests ==
    {[endpoint |-> "/twilio-dialogflowcx", form |-> f, form_error |-> x] :
        f \in RelayForms, x \in BOOLEAN}

Fragments == {Frag(<<>>), Frag(<<"">>), Frag(<<"  ">>), Frag(<<"hello">>),
              Frag(<<" hi ">>), Frag(<<"", "later">>)}

ReplyLists == UNION {[1..n -> Fragments] : n \in 0..MaxReplies}

Max(a, b) == IF a > b THEN a ELSE b

\* The handler reaches Client(account_sid, auth_token)
ReachesClient(cfg, req) ==
    /\ ~req.form_error
    /\ MissingFields(req.form) = <<>>
    /\ ~(Falsy(cfg.account_sid) \/ Falsy(cfg.auth_token))

\* The handler with module-level Twilio and agent clients: it constructs
\* none.
RelayConstructsNothing(cfg, e, req, client_ok) == <<>>

\* The handler making its Twilio client before it looks at the form.
RelayConstructsBeforeChecks(cfg, e, req, client_ok) ==
    IF ~ReachesClient(cfg, req) \/ ~client_ok \/ AgentIdsMissing(e)
    THEN <<"twilio.Client">>
    ELSE <<"twilio.Client", "SessionsClient">>

\* The client handles the relay handler constructs: Client(account_sid,
\* auth_token) once the form and the credentials are there (app.py 490),
\* and SessionsClient() in DialogFlowReply.__init__ once that Client
\* returned and the three agent identifiers are set (dialogflow.py 64, 74).
RelayConstructs(cfg, e, req, client_ok) ==
    IF ~ReachesClient(cfg, req) THEN <<>>
    ELSE IF ~client_ok \/ AgentIdsMissing(e) THEN <<"twilio.Client">>
    ELSE <<"twilio.Client", "SessionsClient">>

\* The relay handler on one of the requests, the agent answering with one
\* of the reply lists: the external answers are drawn for the calls the
\* handler makes.  The handler has no statement that uses bq_client.
RelayOn(requests, reply_lists) ==
    /\ pc = "serving"
    /\ \E req \in requests :
       \E client_ok \in IF ReachesClient(config, req) THEN BOOLEAN ELSE {TRUE} :
       \E session_ok \in IF ReachesClient(config, req) /\ client_ok
                         THEN BOOLEAN ELSE {TRUE} :
       \E detect_raises \in IF /\ ReachesClient(config, req)
                               /\ client_ok /\ session_ok
                               /\ ~AgentIdsMissing(env)
                            THEN BOOLEAN ELSE {FALSE} :
       \E response_messages \in IF /\ ReachesClient(config, req)
                                   /\ client_ok /\ session_ok
                                   /\ ~AgentIdsMissing(env)
                                   /\ ~detect_raises
                                THEN reply_lists ELSE {<<>>} :
       \E delivery \in [1..Max(1, Len(response_messages)) -> BOOLEAN] :
         LET out == RelayHandle(config, env, req, client_ok, session_ok,
                                detect_raises, response_messages, delivery)
         IN  /\ request' = req
             /\ response' = out.response
             /\ agent_calls' = out.agent_calls
             /\ sends' = out.sends
             /\ bq_calls' = <<>>
             /\ constructed' = RelayConstructs(config, env, req, client_ok)
             /\ UNCHANGED <<app, env, pc, config, bq_client, store, threads>>

\* One relay request per run, over every form and reply list
Relay == request = NoRequest /\ RelayOn(RelayRequests, ReplyLists)

\* Relay requests arriving between the ticket requests
TicketingRelayRequests ==
    {[endpoint |-> "/twilio-dialogflowcx", form_error |-> FALSE,
      form |-> [Body |-> b, From |-> "whatsapp:+111", To |-> "whatsapp:+999"]] :
        b \in {None, "hi"}}

TicketingReplyLists == {<<>>, <<Frag(<<"hello">>)>>}

RelayAmongTickets == RelayOn(TicketingRelayRequests, TicketingReplyLists)

\* The requests Flask's threaded server handles at one time, each by a
\* thread of its own with the local variables of its handler invocation.
Threads == {1, 2}

IdleFrame == [pc |-> "idle", kind |-> "none"]

InitWith(envs) ==
    /\ app \in Apps
    /\ env \in envs
    /\ pc = "boot"
    /\ config = NoConfig
    /\ bq_client = None
    /\ store = <<>>
    /\ request = NoRequest
    /\ response = NoResponse
    /\ bq_calls = <<>>
    /\ agent_calls = <<>>
    /\ sends = <<>>
    /\ constructed = <<>>
    /\ threads = [t \in Threads |-> IdleFrame]

(***************************************************************************)
(* Start-up under every subset of the configuration.                       *)
(***************************************************************************)
InitStartup == InitWith(SUBSET EnvNames)

NextStartup == Startup \/ TwilioAppStartup

SpecStartup == InitStartup /\ [][NextStartup]_vars

(***************************************************************************)
(* The ticket endpoints with the whole configuration present.              *)
(***************************************************************************)
Init == InitWith({EnvNames})

Next == \/ Startup
        \/ TwilioAppStartup
        \/ Webhook
        \/ CreateTicket
        \/ CheckStatus
        \/ Check
        \/ TwilioAppCreate
        \/ TwilioAppCheck
        \/ RelayAmongTickets

Spec == Init /\ [][Next]_vars

(***************************************************************************)
(* One create request per run, over every combination of the optional       *)
(* parameters under both key spellings.                                     *)
(***************************************************************************)
Absent == [t |-> "absent", v |-> ""]

BagOf(c) == [k \in {x \in DOMAIN c : c[x] # Absent} |-> c[k]]

AllCreateBags ==
    {BagOf(c) : c \in [Email : {Absent, PyStr("E@x.org")},
                       email : {Absent, PyStr("e@x.org")},
                       Issue : {Absent, PyStr("No Sound")},
                       issue : {Absent, PyStr("no sound")},
                       Name  : {Absent, PyStr("Nora"), NamedObject("Nadia")},
                       name  : {Absent, PyStr("nick"), NamedObject("nell")},
                       phone : {Absent, PyStr(""), PyStr("111")},
                       Phone : {Absent, PyStr("999")},
                       status : {Absent, PyStr("Closed")}]}

FirstRequest == request = NoRequest

WebhookAny == FirstRequest /\ WebhookOn(AllCreateBags)

CreateTicketAny == FirstRequest /\ CreateTicketOn(AllCreateBags)

TwilioAppCreateAny == FirstRequest /\ TwilioAppCreateOn(AllCreateBags)

NextParams == \/ Startup
              \/ TwilioAppStartup
              \/ WebhookAny
              \/ CreateTicketAny
              \/ TwilioAppCreateAny

SpecParams == Init /\ [][NextParams]_vars

(***************************************************************************)
(* One relay request per run, with the whole configuration present or one   *)
(* variable of it absent.                                                   *)
(***************************************************************************)
RelayEnvs == {EnvNames} \cup {EnvNames \ {n} : n \in EnvNames}

InitRelay == InitWith(RelayEnvs)

NextRelay == Startup \/ TwilioAppStartup \/ Relay

SpecRelay == InitRelay /\ [][NextRelay]_vars

(***************************************************************************)
(* Requests handled concurrently.  app.run serves each request in a thread  *)
(* of its own; a handler runs in steps, between which the other request     *)
(* may run: the request is read, the external calls are made one after the  *)
(* other, the response is returned.  The handlers assign local variables    *)
(* only; the module globals are read.                                       *)
(***************************************************************************)
\* The other of the two threads
Other(t) == 3 - t

\* The local variables of the other invocation, when it is at the same
\* point of the same handler: a handler keeping its variables at module
\* level.
FrameOfOther(frames, t) ==
    IF /\ frames[Other(t)].pc = frames[t].pc
       /\ frames[Other(t)].kind = frames[t].kind
    THEN frames[Other(t)] ELSE frames[t]

\* The local variables of invocation t
Frame(frames, t) == frames[t]

\* The route of the request: the create handler of the program
CreateHandleOf(a, client, cfg, req, uuid, now, insert) ==
    IF a = "twilio-app"
    THEN TwilioAppCreateHandle(client, cfg, req, uuid, now, insert)
    ELSE IF req.endpoint = "/webhook"
    THEN WebhookHandle(client, cfg, req, uuid, now, insert)
    ELSE CreateTicketHandle(client, cfg, req, uuid, now, insert)

CreateRoutes(a) == IF a = "app" THEN {"/webhook", "/create"} ELSE {"/create"}

OtherVars == <<app, env, pc, config, bq_client, request, response, bq_calls,
               agent_calls, sends, constructed>>

\* A create handler starts: request.get_json(), uuid4(), utcnow(), the row
AcceptCreate(t) ==
    /\ pc = "serving"
    /\ threads[t].pc = "idle"
    /\ \E endpoint \in CreateRoutes(app) :
       \E req \in Requests(endpoint, CreateBags), uuid \in Uuids :
         threads' = [threads EXCEPT ![t] =
                        [pc |-> "accepted", kind |-> "create", req |-> req,
                         uuid |-> uuid, now |-> UtcNow(Len(store))]]
    /\ UNCHANGED <<store, OtherVars>>

\* The insertion block of the handler, with the row of its own invocation
InsertStep(t) ==
    /\ threads[t].pc = "accepted"
    /\ threads[t].kind = "create"
    /\ \E insert \in InsertOutcomes :
         LET f   == Frame(threads, t)
             out == CreateHandleOf(app, bq_client, config, f.req, f.uuid,
                                   f.now, insert)
         IN  /\ store' = store \o out.rows
             /\ threads' = [threads EXCEPT ![t] =
                   [pc |-> "called", kind |-> "create", req |-> threads[t].req,
                    uuid |-> threads[t].uuid, now |-> threads[t].now,
                    insert |-> insert, out |-> out]]
    /\ UNCHANGED OtherVars

\* return jsonify(response)
CreateRespond(t) ==
    /\ threads[t].pc = "called"
    /\ threads[t].kind = "create"
    /\ threads' = [threads EXCEPT ![t] =
          [pc |-> "done", response |-> Frame(threads, t).out.response]
              @@ threads[t]]
    /\ UNCHANGED <<store, OtherVars>>

\* The reply lists of the agent in the concurrent runs
ConcurrentReplyLists ==
    {<<>>, <<Frag(<<"hello">>), Frag(<<"">>), Frag(<<" hi ">>)>>}

\* delivery[k] as the attempts made tell it
DeliveryOf(attempts, response_messages) ==
    [k \in 1..Max(1, Len(response_messages)) |->
        IF k <= Len(attempts) THEN attempts[k].ok ELSE TRUE]

\* The relay handler starts: request.form
AcceptRelay(t) ==
    /\ pc = "serving"
    /\ threads[t].pc = "idle"
    /\ \E req \in TicketingRelayRequests :
         threads' = [threads EXCEPT ![t] =
                        [pc |-> "accepted", kind |-> "relay", req |-> req]]
    /\ UNCHANGED <<store, OtherVars>>

\* Client(...), DialogFlowReply(...) and send_request(...): what they
\* answer settles the messages the handler goes on to send, in order.
AgentStep(t) ==
    /\ threads[t].pc = "accepted"
    /\ threads[t].kind = "relay"
    /\ LET req == Frame(threads, t).req
       IN  \E client_ok \in IF ReachesClient(config, req) THEN BOOLEAN ELSE {TRUE} :
           \E session_ok \in IF ReachesClient(config, req) /\ client_ok
                             THEN BOOLEAN ELSE {TRUE} :
           \E detect_raises \in IF ReachesClient(config, req) /\ client_ok
                                   /\ session_ok
                                THEN BOOLEAN ELSE {FALSE} :
           \E response_messages \in IF /\ ReachesClient(config, req)
                                       /\ client_ok /\ session_ok
                                       /\ ~detect_raises
                                    THEN ConcurrentReplyLists ELSE {<<>>} :
             LET all_ok == [k \in 1..Max(1, Len(response_messages)) |-> TRUE]
                 plan == RelayHandle(config, env, req, client_ok, session_ok,
                                     detect_raises, response_messages,
                                     all_ok).sends
             IN  threads' = [threads EXCEPT ![t] =
                    [pc |-> "sending", kind |-> "relay", req |-> threads[t].req,
                     answers |-> [client_ok |-> client_ok,
                                  session_ok |-> session_ok,
                                  detect_raises |-> detect_raises,
                                  response_messages |-> response_messages],
                     plan |-> plan, pending |-> plan, inflight |-> <<>>,
                     attempts |-> <<>>]]
    /\ UNCHANGED <<store, OtherVars>>

\* messages.create returning at once, the send going on in the background.
MayStartSendAlways(frame) == TRUE

\* messages.create is a blocking call: the handler starts a send when the
\* one before it has returned or raised.
MayStartSend(frame) == frame.inflight = <<>>

\* twilio_client.messages.create(...) is called
SendStart(t) ==
    /\ threads[t].pc = "sending"
    /\ threads[t].pending # <<>>
    /\ MayStartSend(threads[t])
    /\ threads' = [threads EXCEPT
                     ![t].inflight = Append(@, Head(threads[t].pending)),
                     ![t].pending = Tail(@)]
    /\ UNCHANGED <<store, OtherVars>>

\* twilio_client.messages.create(...) returns or raises
SendEnd(t) ==
    /\ threads[t].pc = "sending"
    /\ \E i \in 1..Len(threads[t].inflight), ok \in BOOLEAN :
         threads' = [threads EXCEPT
            ![t].attempts = Append(@, [threads[t].inflight[i] EXCEPT !.ok = ok]),
            ![t].inflight = SubSeq(@, 1, i - 1) \o SubSeq(@, i + 1, Len(@))]
    /\ UNCHANGED <<store, OtherVars>>

\* return FlaskResponse(...): after the loop
RelayRespond(t) ==
    /\ threads[t].pc = "sending"
    /\ threads[t].pending = <<>>
    /\ threads[t].inflight = <<>>
    /\ LET f   == Frame(threads, t)
           a   == f.answers
           out == RelayHandle(config, env, f.req, a.client_ok, a.session_ok,
                              a.detect_raises, a.response_messages,
                              DeliveryOf(f.attempts, a.response_messages))
       IN  threads' = [threads EXCEPT ![t] =
              [pc |-> "done", response |-> out.response] @@ threads[t]]
    /\ UNCHANGED <<store, OtherVars>>

NextConcurrent ==
    \/ Startup
    \/ TwilioAppStartup
    \/ \E t \in Threads : AcceptCreate(t)
    \/ \E t \in Threads : InsertStep(t)
    \/ \E t \in Threads : CreateRespond(t)
    \/ \E t \in Threads : AcceptRelay(t)
    \/ \E t \in Threads : AgentStep(t)
    \/ \E t \in Threads : SendStart(t)
    \/ \E t \in Threads : SendEnd(t)
    \/ \E t \in Threads : RelayRespond(t)

SpecConcurrent == Init /\ [][NextConcurrent]_vars

(***************************************************************************)
(* Properties                                                               *)
(***************************************************************************)
TicketEndpoints == {"/webhook", "/create", "/check_status", "/check"}

CreateEndpoints == {"/webhook", "/create"}

\* Rows written by POST /create carry phone_number, rows written by
\* POST /webhook do not.
HasPhone(row) == "phone_number" \in DOMAIN row

\* C4: no two records of the ticket store have the same ticket_id.
C4_UniqueTicketIds ==
    \A i, j \in 1..Len(store) :
        (i # j /\ store[i].table = store[j].table)
            => store[i].row.ticket_id # store[j].row.ticket_id

\* The non-empty values a bag supplies for a field, under either spelling;
\* a name object supplies its inner name.
Supplied(parameters, keys) ==
    {IF parameters[k].t = "dict" THEN PyStr(parameters[k].v) ELSE parameters[k] :
        k \in {x \in keys \cap DOMAIN parameters : Truthy(parameters[x])}}

CarriesOrDefault(row, field, parameters, keys) ==
    /\ field \in DOMAIN row
    /\ IF Supplied(parameters, keys) = {}
       THEN row[field] = PyStr("N/A")
       ELSE row[field] \in Supplied(parameters, keys)

\* C5, stated for POST /create of app.py, whose record has the four optional
\* fields: a create request whose store insert reports no error answers 200
\* and writes a record that has "N/A" in each missing optional field and the
\* supplied value in each present one.
C5_MissingFieldsDefault ==
    (/\ pc = "serving"
     /\ app = "app"
     /\ request.endpoint = "/create"
     /\ request.json
     /\ response.kind # "error")
    => /\ response.status = 200
       /\ Len(store) = 1
       /\ LET row == store[1].row
              parameters == Parameters(request.data)
          IN  /\ CarriesOrDefault(row, "name", parameters, {"name", "Name"})
              /\ CarriesOrDefault(row, "email_address", parameters, {"email", "Email"})
              /\ CarriesOrDefault(row, "issue", parameters, {"issue", "Issue"})
              /\ CarriesOrDefault(row, "phone_number", parameters, {"phone", "Phone"})

\* C6 (as amended): every create endpoint generates a ticket_id of exactly
\* 8 characters, in the stored record and in the echoed parameter alike.
C6_TicketIdEightChars ==
    /\ \A i \in 1..Len(store) : Len(store[i].row.ticket_id) = 8
    /\ (request.endpoint \in CreateEndpoints /\ response.status = 200)
         => /\ Len(response.parameters.ticket_id) = 8
            /\ response.parameters.ticket_id = store[Len(store)].row.ticket_id

\* Rows written by both create endpoints of app.py are in the store.
C6_Witness ==
    /\ Len(store) = 2
    /\ ~HasPhone(store[1].row)
    /\ HasPhone(store[2].row)
    /\ response.status = 200

\* C6 as claimed: one create endpoint generates 8 characters, the other the
\* untruncated 36, so identifiers of the two endpoints never have one format.
C6_Original ==
    \A i, j \in 1..Len(store) :
        (~HasPhone(store[i].row) /\ HasPhone(store[j].row))
            => Len(store[i].row.ticket_id) # Len(store[j].row.ticket_id)

\* C7: whatever part of the configuration is absent, start-up does not crash.
C7_StartupNeverCrashes == pc # "crashed"

\* A ticket request whose handler raises before it looks at bq_client.
RaisesBeforeStore(req) ==
    \/ ~req.json
    \/ /\ req.endpoint = "/webhook" \/ (app = "twilio-app" /\ req.endpoint = "/create")
       /\ WebhookNameRaises(Parameters(req.data))

\* C8 (as amended): once start-up has left bq_client None it stays None,
\* and every create or status-check request answers 500 without an insert
\* or a query: with "Server configuration error", or with the generic
\* apology when reading the request raises first.
C8_NoClientFailsFast ==
    [][(pc = "serving" /\ bq_client = None)
        => /\ bq_client' = None
           /\ store' = store
           /\ bq_calls' = <<>>
           /\ request'.endpoint \in TicketEndpoints
                => /\ response'.status = 500
                   /\ IF RaisesBeforeStore(request')
                      THEN response' \in {CreateApology, CheckApology}
                      ELSE response' = ErrorResponse("Server configuration error")]_vars

C8_Witness ==
    /\ bq_client = None
    /\ request.endpoint = "/create"
    /\ request.json
    /\ response = ErrorResponse("Server configuration error")

\* C8 as claimed: with bq_client None every create and status-check request
\* answers 500 "Server configuration error".
C8_Original ==
    (pc = "serving" /\ bq_client = None /\ request.endpoint \in TicketEndpoints)
        => /\ response = ErrorResponse("Server configuration error")
           /\ bq_calls = <<>>

(***************************************************************************)
(* Properties of the relay webhook                                          *)
(***************************************************************************)
RelayEndpoint == "/twilio-dialogflowcx"

FormFields == {"Body", "From", "To"}

\* The form fields that are absent or empty
Missing(form) == {f \in FormFields : form[f] \in {None, ""}}

\* The form was read and holds the three fields
Parsed == /\ request.endpoint = RelayEndpoint
          /\ ~request.form_error
          /\ Missing(request.form) = {}

\* The agent was called and the call failed: the construction of the
\* session or the detect-intent request raised.
AgentCallFailed ==
    /\ request.endpoint = RelayEndpoint
    /\ agent_calls # <<>>
    /\ agent_calls[Len(agent_calls)].raised

\* The agent was called and answered with a reply list
AgentCallSucceeded ==
    /\ request.endpoint = RelayEndpoint
    /\ Len(agent_calls) = 2
    /\ ~agent_calls[2].raised

AgentReplies == agent_calls[2].replies

Contains(s, t) ==
    \E i \in 1..(Len(s) - Len(t) + 1) : SubSeq(s, i, i + Len(t) - 1) = t

IsBlank(s) == \A i \in 1..Len(s) : SubSeq(s, i, i) = " "

\* A fragment with text that is not blank; its text is the first string
\* of its text list.
HasText(df_message) ==
    /\ Len(df_message.text.text) > 0
    /\ ~IsBlank(df_message.text.text[1])

\* C1: whenever the agent call fails, exactly one message is sent, it is
\* the generic apology to the sender, and the webhook answers 500.
C1_AgentFailureApology ==
    AgentCallFailed
        => /\ Len(sends) = 1
           /\ sends[1].body = ErrorReply
           /\ sends[1].to = request.form.From
           /\ response.status = 500

\* C2 (as amended): when the agent call succeeds with an empty reply list,
\* exactly one message, the "please rephrase" text, is sent to the sender;
\* when it succeeds with a list in which no fragment has text that is not
\* blank, no message is sent; the webhook answers 200 in both cases.
C2_NoUsableText ==
    (AgentCallSucceeded /\ SelectSeq(AgentReplies, HasText) = <<>>)
        => /\ response.status = 200
           /\ IF AgentReplies = <<>>
              THEN /\ Len(sends) = 1
                   /\ sends[1].body = NoResponseReply
                   /\ sends[1].to = request.form.From
              ELSE sends = <<>>

\* The agent answers with two fragments, one without text and one blank.
C2_Witness ==
    /\ AgentCallSucceeded
    /\ AgentReplies = <<Frag(<<>>), Frag(<<"  ">>)>>
    /\ sends = <<>>
    /\ response = TextResponse("No messages were sent.", 200)

\* C2 as claimed: an empty list and a list without usable text alike lead
\* to exactly one "please rephrase" message and 200.
C2_Original ==
    (AgentCallSucceeded /\ SelectSeq(AgentReplies, HasText) = <<>>)
        => /\ response.status = 200
           /\ Len(sends) = 1
           /\ sends[1].body = NoResponseReply

\* C3 (as amended): a request whose three fields were read answers 200
\* whatever detect-intent and the sends do, once the Twilio client and the
\* agent session are set up; it answers 500 when the credentials are
\* missing or a constructor raises.
C3_AcknowledgedOnceSetUp ==
    Parsed
        => IF agent_calls # <<>> /\ ~agent_calls[1].raised
           THEN response.status = 200
           ELSE response.status = 500

\* Detect-intent answered, and every send of the request failed.
C3_Witness ==
    /\ Parsed
    /\ AgentCallSucceeded
    /\ Len(sends) = 2
    /\ \A k \in 1..Len(sends) : ~sends[k].ok
    /\ response.status = 200

\* C3 as claimed: every request whose three fields were read answers 200.
C3_Original == Parsed => response.status = 200

\* C9: a request whose form is read with some of Body, From, To absent or
\* empty answers 400 and its body names the missing fields and no other.
C9_NamesMissingFields ==
    (/\ request.endpoint = RelayEndpoint
     /\ ~request.form_error
     /\ Missing(request.form) # {})
        => /\ response.status = 400
           /\ \A f \in FormFields :
                Contains(response.body, f) <=> f \in Missing(request.form)

\* Body absent, To empty, From present
C9_Witness ==
    /\ request.endpoint = RelayEndpoint
    /\ ~request.form_error
    /\ request.form.Body = None
    /\ request.form.To = ""
    /\ request.form.From = "whatsapp:+111"
    /\ response = TextResponse("Missing required form fields: Body, To", 400)

\* C10: for a non-empty reply list there is one send attempt per fragment
\* whose text is not blank, in order, carrying that text, and none for
\* the other fragments.
C10_OneSendPerTextFragment ==
    (AgentCallSucceeded /\ AgentReplies # <<>>)
        => LET texts == SelectSeq(AgentReplies, HasText)
           IN  /\ Len(sends) = Len(texts)
               /\ \A k \in 1..Len(sends) :
                    /\ sends[k].body = texts[k].text.text[1]
                    /\ sends[k].to = request.form.From

\* The fragments "" and "hello": one send, carrying hello
C10_Witness ==
    /\ AgentCallSucceeded
    /\ AgentReplies = <<Frag(<<"">>), Frag(<<"hello">>)>>
    /\ Len(sends) = 1
    /\ sends[1].body = "hello"


\* C11: in a relay of several fragments a send that fails is followed by
\* the attempt for every later fragment with text, it is not attempted
\* again, the sends that succeeded stay among the sends of the request, and
\* the webhook answers 200 whether some, all or none of the sends failed.
C11_ContinueOnSendFailure ==
    (AgentCallSucceeded /\ AgentReplies # <<>>)
        => LET texts == SelectSeq(AgentReplies, HasText)
           IN  /\ response.status = 200
               /\ \A i \in 1..Len(sends) :
                    ~sends[i].ok
                        => /\ Len(sends) = Len(texts)
                           /\ \A j \in (i + 1)..Len(texts) :
                                sends[j].body = texts[j].text.text[1]
                           /\ \A j \in 1..(i - 1) :
                                sends[j].body = texts[j].text.text[1]

\* Two fragments with text: the first send fails, the second is attempted
\* and succeeds.
C11_Witness ==
    /\ AgentCallSucceeded
    /\ AgentReplies = <<Frag(<<"hello">>), Frag(<<" hi ">>)>>
    /\ Len(sends) = 2
    /\ ~sends[1].ok
    /\ sends[2].ok
    /\ sends[2].body = " hi "
    /\ response.status = 200

(***************************************************************************)
(* Properties of the status checks                                          *)
(***************************************************************************)
CheckEndpoints == {"/check_status", "/check"}

\* The request was a status check whose query returned a result of n rows.
Looked(n) ==
    /\ request.endpoint \in CheckEndpoints
    /\ Len(bq_calls) = 1
    /\ bq_calls[1].op = "query"
    /\ bq_calls[1].outcome = "ok"
    /\ bq_calls[1].matched = n

\* The stored rows whose table and ticket_id are those of the query
MatchingRows ==
    {i \in 1..Len(store) : /\ store[i].table = bq_calls[1].table
                           /\ PyStr(store[i].row.ticket_id) = bq_calls[1].ticket_id}

\* C12: a status check, on either endpoint, whose lookup finds no record
\* with the ticket_id answers 200 with the text "No ticket found with the
\* provided ID." and the status parameter "Not Found".
C12_NotFound ==
    Looked(0)
        => /\ MatchingRows = {}
           /\ response.status = 200
           /\ response.text = <<Lit("No ticket found with the provided ID.")>>
           /\ response.parameters.status = "Not Found"
           /\ response.parameters.ticketid = bq_calls[1].ticket_id

\* A ticket is stored and the check asks for another id.
C12_Witness ==
    /\ Looked(0)
    /\ Len(store) > 0
    /\ request.endpoint = "/check"
    /\ bq_calls[1].ticket_id = PyStr("7c9e6679")
    /\ response.parameters.status = "Not Found"

\* piece b comes right after piece a in the text
Follows(text, a, b) ==
    \E k \in 1..(Len(text) - 1) : text[k] = a /\ text[k + 1] = b

\* The reply renders the status, created_at and issue of the row
Reports(resp, row) ==
    /\ Follows(resp.text, Lit("Status: "), PyStr(row.status))
    /\ Follows(resp.text, Lit("Created At: "), PyStr(row.created_at))
    /\ Follows(resp.text, Lit("Issue: "), row.issue)
    /\ resp.parameters.status = row.status

\* C13: a status check whose ticket_id equals, as a string, the ticket_id
\* of exactly one record answers with that record's status, created_at and
\* issue in the text and its status in the status parameter; whatever the
\* number of matches, the record reported is one whose ticket_id is the one
\* asked for.
C13_ReportsTheMatch ==
    /\ Looked(1)
         => /\ Cardinality(MatchingRows) = 1
            /\ response.status = 200
            /\ \A i \in MatchingRows : Reports(response, store[i].row)
    /\ \A n \in 1..Len(store) :
         Looked(n) => \E i \in MatchingRows : Reports(response, store[i].row)

\* Two tickets with different ids are stored and the check asks for the
\* second.
C13_Witness ==
    /\ Looked(1)
    /\ Len(store) = 2
    /\ store[1].row.ticket_id # store[2].row.ticket_id
    /\ bq_calls[1].ticket_id = PyStr(store[2].row.ticket_id)
    /\ Reports(response, store[2].row)
    /\ ~Reports(response, store[1].row)

(***************************************************************************)
(* Properties of the failures of the ticket endpoints                       *)
(***************************************************************************)
\* The request was a create whose insert was issued and ended as outcome.
Inserted(outcome) ==
    /\ request.endpoint \in CreateEndpoints
    /\ Len(bq_calls) = 1
    /\ bq_calls[1].op = "insert"
    /\ bq_calls[1].outcome = outcome

\* C14: a create request whose insert reports row-level errors, or raises,
\* answers 500 with an error payload that has neither a ticket summary nor
\* a parameter echo, so no ticket_id reaches the client.
C14_FailedInsertNoTicket ==
    (Inserted("errors") \/ Inserted("raise"))
        => /\ response.status = 500
           /\ DOMAIN response = {"status", "kind", "error"}
           /\ response.error = IF Inserted("errors")
                               THEN "Database insertion failed"
                               ELSE "Database error"

\* The insert of POST /webhook reports row-level errors.
C14_Witness ==
    /\ Inserted("errors")
    /\ request.endpoint = "/webhook"
    /\ response.error = "Database insertion failed"

\* C15: every create and status-check request has one response, 200 or
\* 500, and leaves the process serving; a request whose reading raises (a
\* body that is not JSON, a name of the wrong type on POST /webhook) is
\* answered 500 with the fixed apology of its handler, without a store
\* call.
C15_FailuresCaught ==
    request.endpoint \in TicketEndpoints
        => /\ pc = "serving"
           /\ response.status \in {200, 500}
           /\ RaisesBeforeStore(request)
                => /\ response.status = 500
                   /\ response.kind = "fulfillment"
                   /\ DOMAIN response = {"status", "kind", "text"}
                   /\ response.text =
                        IF request.endpoint \in CreateEndpoints
                        THEN <<PyStr("An error occurred while processing your request")>>
                        ELSE <<PyStr("An error occurred while checking your ticket status.")>>
                   /\ bq_calls = <<>>

\* POST /webhook with name sent as a string
C15_Witness ==
    /\ request.endpoint = "/webhook"
    /\ request.json
    /\ Parameters(request.data)["name"] = PyStr("Jane")
    /\ response.status = 500
    /\ response.text = <<PyStr("An error occurred while processing your request")>>
    /\ pc = "serving"

(***************************************************************************)
(* Properties of the stored records                                         *)
(***************************************************************************)
\* C16: every record in the ticket store has status "Open" and an empty
\* ticket_history_file, whichever create endpoint wrote it and whatever the
\* parameter bag of the request held.
C16_OpenAndNoHistory ==
    \A i \in 1..Len(store) :
        /\ store[i].row.status = "Open"
        /\ store[i].row.ticket_history_file = ""

\* POST /webhook stored a record for a request that carried a status of
\* its own.
C16_Witness ==
    /\ request.endpoint = "/webhook"
    /\ request.json
    /\ "status" \in DOMAIN Parameters(request.data)
    /\ Parameters(request.data)["status"] = PyStr("Closed")
    /\ Len(store) = 1
    /\ store[1].row.status = "Open"

\* C17: the ticket store is append-only: a status check and a relay
\* request leave the stored records as they are, and a create request
\* keeps every record already stored, unchanged and in place, and adds at
\* most one.
C17_AppendOnly ==
    [][/\ request'.endpoint \in CheckEndpoints \cup {RelayEndpoint}
            => store' = store
       /\ request'.endpoint \in CreateEndpoints
            => /\ Len(store') \in {Len(store), Len(store) + 1}
               /\ SubSeq(store', 1, Len(store)) = store]_vars

\* A relay request was served after two tickets were stored.
C17_Witness ==
    /\ Len(store) = 2
    /\ request.endpoint = RelayEndpoint
    /\ Len(sends) = 1
    /\ response.status = 200

(***************************************************************************)
(* Properties of the agent session                                          *)
(***************************************************************************)
\* The senders of the relay requests
Senders == {f.From : f \in {g \in RelayForms : ~Falsy(g.From)}}

\* The session name of a sender under the configured agent
SessionOf(sender) ==
    "projects/proj/locations/global/agents/agent/sessions/" \o sender

\* C18: every agent call of a relay request is made with the From address
\* of that request as session id, and the detect-intent request names the
\* session of that address: one session per sender, none shared by two.
C18_SessionIsSender ==
    (request.endpoint = RelayEndpoint /\ agent_calls # <<>>)
        => /\ \A k \in 1..Len(agent_calls) :
                agent_calls[k].session_id = request.form.From
           /\ Len(agent_calls) = 2
                => /\ agent_calls[2].session = SessionOf(request.form.From)
                   /\ \A a \in Senders :
                        agent_calls[2].session = SessionOf(a)
                            <=> a = request.form.From

\* The second sender's message reached detect-intent.
C18_Witness ==
    /\ request.endpoint = RelayEndpoint
    /\ Len(agent_calls) = 2
    /\ request.form.From = "whatsapp:+222"
    /\ agent_calls[2].session_id = "whatsapp:+222"
    /\ agent_calls[2].session = SessionOf("whatsapp:+222")

(***************************************************************************)
(* Properties of the tables and of the echo                                 *)
(***************************************************************************)
\* C19: the records written by POST /webhook and those written by POST
\* /create are in different tables, and a status check on POST /check, the
\* check of the /create variant, never reports a record that POST /webhook
\* wrote.
C19_SeparateTables ==
    /\ \A i, j \in 1..Len(store) :
         (~HasPhone(store[i].row) /\ HasPhone(store[j].row))
             => store[i].table # store[j].table
    /\ \A n \in 1..Len(store) :
         (Looked(n) /\ request.endpoint = "/check" /\ app = "app")
             => \E i \in MatchingRows : /\ HasPhone(store[i].row)
                                        /\ Reports(response, store[i].row)

\* The request was a create that answered 200.
Created == request.endpoint \in CreateEndpoints /\ response.status = 200

\* The echo and the summary of the response agree with the row: ticket_id,
\* email_address and, where the row has one, phone_number.
EchoAgrees(resp, row) ==
    /\ resp.parameters.ticket_id = row.ticket_id
    /\ resp.parameters.status = "Open"
    /\ resp.parameters.status = row.status
    /\ resp.parameters.email_address = row.email_address
    /\ ("phone_number" \in DOMAIN resp.parameters) <=> HasPhone(row)
    /\ HasPhone(row) => /\ resp.parameters.phone_number = row.phone_number
                        /\ Follows(resp.text, Lit("Phone Number: "), row.phone_number)
    /\ Follows(resp.text, Lit("Ticket ID: "), PyStr(row.ticket_id))
    /\ Follows(resp.text, Lit("Email address: "), row.email_address)

\* C20 (as amended): a create request that answers 200 echoes the
\* ticket_id, the status "Open", the email_address and, on the endpoints
\* that store one, the phone_number of the record written in that request,
\* and its summary text carries the same ticket_id, email_address and
\* phone_number; the summary has no status line.
C20_EchoAgreesWithRecord ==
    Created
        => /\ Len(store) > 0
           /\ EchoAgrees(response, store[Len(store)].row)
           /\ \A k \in 1..Len(response.text) :
                response.text[k] # PyStr(store[Len(store)].row.status)

\* POST /create of app.py with both spellings of the email and a phone
C20_Witness ==
    /\ Created
    /\ request.endpoint = "/create"
    /\ app = "app"
    /\ Parameters(request.data) =
         ("Email" :> PyStr("E@x.org")) @@ ("email" :> PyStr("e@x.org"))
             @@ ("phone" :> PyStr("111"))
    /\ store[1].row.email_address = PyStr("E@x.org")
    /\ response.parameters.email_address = PyStr("E@x.org")
    /\ response.parameters.phone_number = PyStr("111")

\* C20 as claimed: the summary text carries the echoed status as well.
C20_Original ==
    Created
        => /\ Len(store) > 0
           /\ EchoAgrees(response, store[Len(store)].row)
           /\ \E k \in 1..Len(response.text) :
                response.text[k] = PyStr(response.parameters.status)

(***************************************************************************)
(* Properties of the parameters read by the handlers                        *)
(***************************************************************************)
\* The store client is present and no insert of the request failed.
NoStoreFailure ==
    /\ bq_client # None
    /\ \A k \in 1..Len(bq_calls) : bq_calls[k].outcome = "ok"

\* C21: on every create endpoint a request that supplies a name, as a plain
\* string or as an object with a name, under the key name or Name, succeeds
\* and stores that name as a string.
C21_NameObjectOrString ==
    (/\ pc = "serving"
     /\ request.endpoint \in CreateEndpoints
     /\ request.json
     /\ NoStoreFailure
     /\ Supplied(Parameters(request.data), {"name", "Name"}) # {})
        => /\ response.status = 200
           /\ Len(store) = 1
           /\ store[1].row.name
                  \in Supplied(Parameters(request.data), {"name", "Name"})

\* The keys a status check may carry the identifier under
IdKeys == {"ticket_id", "ticketid", "TicketID"}

\* C22: on every status-check endpoint a request that supplies the
\* identifier under one of the keys ticket_id, ticketid, TicketID looks up
\* that identifier, and the answer of its lookup echoes it under ticketid.
C22_AnyKeyLooksUp ==
    (/\ request.endpoint \in CheckEndpoints
     /\ request.json
     /\ Len(bq_calls) = 1)
        => \A k \in IdKeys \cap DOMAIN Parameters(request.data) :
             /\ bq_calls[1].ticket_id = Parameters(request.data)[k]
             /\ response.status = 200
                  => response.parameters.ticketid = Parameters(request.data)[k]

(***************************************************************************)
(* Properties of the client handles                                         *)
(***************************************************************************)
\* The handles of a sequence of constructions
Handles(made) == {made[k] : k \in 1..Len(made)}

\* C23 (as amended): the ticket store client is constructed once, by the
\* start-up, and no request constructs one; a ticket request constructs no
\* handle at all; a relay request whose form and credentials are there
\* constructs a Twilio client of its own, and an agent client too once that
\* Twilio client is made and the agent identifiers are set.
C23_HandlesPerRequest ==
    /\ "bigquery.Client" \in Handles(constructed) => request = NoRequest
    /\ request.endpoint \in TicketEndpoints => constructed = <<>>
    /\ request.endpoint = RelayEndpoint
         => IF Missing(request.form) # {} \/ Falsy(config.account_sid)
                                          \/ Falsy(config.auth_token)
            THEN constructed = <<>>
            ELSE /\ constructed # <<>>
                 /\ constructed[1] = "twilio.Client"
                 /\ agent_calls # <<>>
                      <=> constructed = <<"twilio.Client", "SessionsClient">>

\* A relay request served after a ticket was stored made both its clients.
C23_Witness ==
    /\ request.endpoint = RelayEndpoint
    /\ Len(store) > 0
    /\ bq_client = "client"
    /\ constructed = <<"twilio.Client", "SessionsClient">>
    /\ response.status = 200

\* C23 as claimed: no request handler constructs a client handle.
C23_Original ==
    request # NoRequest => constructed = <<>>

(***************************************************************************)
(* Properties of the requests handled concurrently                          *)
(***************************************************************************)
\* The create invocations that have been through their insertion block
Called == {t \in Threads : threads[t].kind = "create"
                           /\ threads[t].pc \in {"called", "done"}}

\* What the create request of thread t gives when it is handled alone with
\* the same uuid, clock and store answer
CreateAlone(t) ==
    CreateHandleOf(app, bq_client, config, threads[t].req, threads[t].uuid,
                   threads[t].now, threads[t].insert)

\* What the relay request of thread t gives when it is handled alone with
\* the same answers of the agent and of Twilio
RelayAlone(t) ==
    RelayHandle(config, env, threads[t].req, threads[t].answers.client_ok,
                threads[t].answers.session_ok, threads[t].answers.detect_raises,
                threads[t].answers.response_messages,
                DeliveryOf(threads[t].attempts,
                           threads[t].answers.response_messages))

RECURSIVE RowsOf(_)
\* The number of rows the invocations of a set have inserted
RowsOf(ts) ==
    IF ts = {} THEN 0
    ELSE LET t == CHOOSE x \in ts : TRUE
         IN  Len(threads[t].out.rows) + RowsOf(ts \ {t})

Sending == {t \in Threads : threads[t].kind = "relay"
                            /\ threads[t].pc \in {"sending", "done"}}

\* C25: within a relay request at most one send is under way at a time,
\* the sends are started in the order of the reply list, each after the
\* one before it has returned or raised, and the response is returned
\* after the last attempt.
C25_SendsSequential ==
    \A t \in Sending :
        /\ Len(threads[t].inflight) <= 1
        /\ Len(threads[t].attempts) + Len(threads[t].inflight)
               + Len(threads[t].pending) = Len(threads[t].plan)
        /\ \A k \in 1..Len(threads[t].attempts) :
             /\ threads[t].attempts[k].body = threads[t].plan[k].body
             /\ threads[t].attempts[k].to = threads[t].plan[k].to
        /\ \A k \in 1..Len(threads[t].inflight) :
             threads[t].inflight[k].body
                 = threads[t].plan[Len(threads[t].attempts) + k].body
        /\ threads[t].pc = "done"
             => /\ threads[t].inflight = <<>>
                /\ threads[t].pending = <<>>
                /\ Len(threads[t].attempts) = Len(threads[t].plan)

\* The first of two sends has failed and the second is under way.
C25_Witness ==
    /\ threads[1].kind = "relay"
    /\ threads[1].pc = "sending"
    /\ Len(threads[1].plan) = 2
    /\ Len(threads[1].attempts) = 1
    /\ ~threads[1].attempts[1].ok
    /\ threads[1].attempts[1].body = "hello"
    /\ Len(threads[1].inflight) = 1
    /\ threads[1].inflight[1].body = " hi "

(***************************************************************************)
(* The round trip of a ticket                                               *)
(***************************************************************************)
\* The keys under which a status-check endpoint reads the identifier
ReadKeys(a, endpoint) ==
    IF a = "twilio-app" THEN {"ticketid"}
    ELSE IF endpoint = "/check_status" THEN {"ticket_id"}
    ELSE IdKeys

\* The status check of the channel variant whose create wrote the row
MatchingCheck(a, row) ==
    IF a = "twilio-app" THEN "/check"
    ELSE IF HasPhone(row) THEN "/check" ELSE "/check_status"

\* The identifier the request supplies under a key its endpoint reads
AsksFor(id) ==
    \E k \in ReadKeys(app, request.endpoint) \cap DOMAIN Parameters(request.data) :
        Parameters(request.data)[k] = PyStr(id)

NoSideEffect ==
    /\ constructed = <<>>
    /\ agent_calls = <<>>
    /\ sends = <<>>
    /\ bq_calls = <<>>
    /\ store = <<>>

\* C27: a relay request with a form field missing is answered 400 and one
\* with the form complete but a Twilio credential not configured is
\* answered 500, and neither makes a Twilio client, calls the agent or
\* attempts a send.
C27_RejectedWithoutEffect ==
    (request.endpoint = RelayEndpoint /\ ~request.form_error)
        => /\ Missing(request.form) # {}
                => response.status = 400 /\ NoSideEffect
           /\ (/\ Missing(request.form) = {}
               /\ Falsy(config.account_sid) \/ Falsy(config.auth_token))
                => /\ response = TextResponse("Twilio service not configured.", 500)
                   /\ NoSideEffect
           /\ response.status = 400 => NoSideEffect

\* From is missing: 400 and nothing done.
C27_Witness ==
    /\ request.endpoint = RelayEndpoint
    /\ ~request.form_error
    /\ request.form.From = None
    /\ request.form.Body = "hi"
    /\ response = TextResponse("Missing required form fields: From", 400)
    /\ NoSideEffect

\* C28: every send attempted for a relay request, whether a fragment of
\* the agent, the apology or the "please rephrase" message, goes to the
\* From address of the request from its To address.
C28_SendsToSender ==
    request.endpoint = RelayEndpoint
        => \A k \in 1..Len(sends) :
             /\ sends[k].to = request.form.From
             /\ sends[k].from_ = request.form.To
             /\ sends[k].to # sends[k].from_

\* The apology goes to the second sender.
C28_Witness ==
    /\ request.endpoint = RelayEndpoint
    /\ request.form.From = "whatsapp:+222"
    /\ Len(sends) = 1
    /\ sends[1].body = ErrorReply
    /\ sends[1].to = "whatsapp:+222"
    /\ sends[1].from_ = "whatsapp:+999"
====
